---- MODULE Spec2Model ----
(***************************************************************************)
(* A model of the TorchTrade simulation kernel: components/clock.py,       *)
(* components/market.py, components/trade.py and components/broker.py.     *)
(*                                                                         *)
(* Time is an integer number of time units.  Prices, commissions and P&L   *)
(* are exact fixed-point numbers in units of 1/100000 (the code computes   *)
(* them in floating point; rounding is not modelled).  Percentages are     *)
(* exact fractions in lowest terms.  An Optional value is <<>> for None    *)
(* and <<v>> for a value v.                                                *)
(***************************************************************************)
EXTENDS Integers, Sequences, FiniteSets, TLC

VARIABLES
    prepared,           \* Market.__prepared
    data,               \* Market.data: timestamp -> candle of the symbol
    timestamp,          \* Market.timestamp (Optional)
    last_market_data,   \* Market.last_market_data (Optional slice)
    observers,          \* Market.observers: sequence of observer ids
    trades,             \* every Trade object constructed so far
    resets,             \* number of Market.reset calls that took effect
    lastCall,           \* the last public call and how it ended
    delivered,          \* the update callbacks of the last call, in order
    pruned,             \* the subscribers the last call removed as terminal
    terminalSnap,       \* each trade as it was when it first became terminal
    leavers,            \* the observers that are not Trade objects
    broker_trades,      \* Broker.trades: sequence of trade indexes
    clock,              \* the Clock object
    clock_observers,    \* Clock.observers: sequence of observer ids
    listeners,          \* the state of each clock observer
    clockLog            \* the observer callbacks of the last Clock call

marketVars == <<prepared, data, timestamp, last_market_data, observers, trades,
                resets, lastCall, delivered, pruned, terminalSnap, leavers>>
clockVars == <<clock, clock_observers, listeners, clockLog>>
brokerVars == <<broker_trades>>
vars == <<prepared, data, timestamp, last_market_data, observers, trades,
          resets, lastCall, delivered, pruned, terminalSnap, leavers, broker_trades,
          clock, clock_observers, listeners, clockLog>>

-----------------------------------------------------------------------------
(* Bounds of the model *)

\* Trade objects the driver constructs in one run.
MaxTrades == 1
\* Candles per symbol in the prepared dataset.
NumTimestamps == 4
\* Market.reset calls in one run.
MaxResets == 1
\* How many intervals past the end a run is followed.
MaxOvershoot == 1
\* Largest rollback_periods argument tried: one too many for the dataset.
MaxRollback == NumTimestamps
\* Time units in one Market interval.
Timedelta == 2
\* Trade objects constructed in one run of the trade book scenario.
MaxBook == 2

None == <<>>
Some(v) == <<v>>
IsNone(o) == o = <<>>
Val(o) == o[1]

-----------------------------------------------------------------------------
(* Exact arithmetic *)

\* A price p of the feed in fixed point.
Fix(p) == p * 100000

\* x * pct / 100, for x a fixed-point amount and pct a whole percentage.
Percent(x, pct) == (x * pct) \div 100

Abs(x) == IF x < 0 THEN -x ELSE x

RECURSIVE GCD(_, _)
GCD(a, b) == IF b = 0 THEN a ELSE GCD(b, a % b)

\* The fraction n/d (d > 0) in lowest terms.
Frac(n, d) ==
    LET g == GCD(Abs(n), d)
    IN  [num |-> n \div g, den |-> d \div g]

Zero == [num |-> 0, den |-> 1]

-----------------------------------------------------------------------------
(* trade.py: TradeDirection, TradeStatus and Trade *)

LONG == 1
SHORT == -1
TradeDirection == {LONG, SHORT}

CREATED == "created"
FILLED == "filled"
REJECTED == "rejected"
CLOSED == "closed"
TradeStatus == {CREATED, FILLED, REJECTED, CLOSED}

\* P&L percentage times discount^periods, kept symbolic in the exponent.
Discounted(pct, periods) ==
    IF pct.num = 0 THEN [pct |-> Zero, periods |-> 0]
    ELSE [pct |-> pct, periods |-> periods]

\* Trade.__init__.  stop_loss and commission are whole percentages (2 is
\* 0.02), risk_reward is in tenths (15 is 1.5); the discount factor is the
\* default 0.9 and enters only through Discounted.
Trade(id, creation_timestamp, direction, quantity, leverage, execution_timestamp, stop_loss, risk_reward, commission) ==
    [ id |-> id,
      direction |-> direction,
      quantity |-> quantity,
      leverage |-> leverage,
      stop_loss |-> stop_loss,
      risk_reward |-> risk_reward,
      commission |-> commission,
      status |-> CREATED,
      creation_timestamp |-> creation_timestamp,
      execution_timestamp |->
          IF IsNone(execution_timestamp) THEN creation_timestamp
          ELSE Val(execution_timestamp),
      close_timestamp |-> None,
      last_update_timestamp |-> creation_timestamp,
      fill_price |-> None,
      stop_loss_price |-> None,
      take_profit_price |-> None,
      close_price |-> None,
      time_in_trade |-> 0,
      paid_commission |-> 0,
      unrealized_pnl |-> 0,
      realized_pnl |-> 0,
      unrealized_pnl_percentage |-> Zero,
      realized_pnl_percentage |-> Zero,
      unrealized_pnl_percentage_discounted |-> Discounted(Zero, 0),
      realized_pnl_percentage_discounted |-> Discounted(Zero, 0) ]

\* direction * (quantity*price - quantity*fill_price)
SignedMove(t, price) ==
    t.direction * ((t.quantity * price) - (t.quantity * Val(t.fill_price)))

\* quantity * fill_price, the divisor of the percentage fields
Notional(t) == t.quantity * Val(t.fill_price)

\* Trade.__update_metrics without the increment of time_in_trade
update_metrics_unticked(t, price) ==
    LET pnl == SignedMove(t, price)
        pct == Frac(pnl, Notional(t))
    IN  [t EXCEPT !.unrealized_pnl = pnl,
                  !.unrealized_pnl_percentage = pct,
                  !.unrealized_pnl_percentage_discounted = Discounted(pct, t.time_in_trade)]

\* Trade.__update_metrics.  With a divisor of 0 the division raises
\* ZeroDivisionError after time_in_trade and unrealized_pnl were assigned.
update_metrics(t, price) ==
    LET tit == t.time_in_trade + 1
        pnl == SignedMove(t, price)
    IN  IF Notional(t) = 0
        THEN [t EXCEPT !.time_in_trade = tit, !.unrealized_pnl = pnl]
        ELSE LET pct == Frac(pnl, Notional(t))
             IN  [t EXCEPT !.time_in_trade = tit,
                           !.unrealized_pnl = pnl,
                           !.unrealized_pnl_percentage = pct,
                           !.unrealized_pnl_percentage_discounted = Discounted(pct, tit)]

\* Trade.__reject_trade
reject_trade(t) == [t EXCEPT !.status = REJECTED]

\* Trade.__fill_trade without the debit of the entry commission from realized_pnl
fill_trade_uncharged(t, fill_price) ==
    LET slp == IF IsNone(t.stop_loss) THEN None
               ELSE Some(Percent(fill_price, 100 - t.direction * Val(t.stop_loss)))
        tpp == IF ~IsNone(t.stop_loss) /\ ~IsNone(t.risk_reward)
               THEN Some((fill_price \div 1000)
                         * (1000 + t.direction * Val(t.risk_reward) * Val(t.stop_loss)))
               ELSE None
        paid == t.paid_commission + Percent(fill_price * t.quantity, t.commission)
    IN  [t EXCEPT !.fill_price = Some(fill_price),
                  !.stop_loss_price = slp,
                  !.take_profit_price = tpp,
                  !.status = FILLED,
                  !.paid_commission = paid]

\* Trade.__fill_trade computing both trigger prices as for a LONG trade
fill_trade_unsigned(t, fill_price) ==
    LET slp == IF IsNone(t.stop_loss) THEN None
               ELSE Some(Percent(fill_price, 100 - Val(t.stop_loss)))
        tpp == IF ~IsNone(t.stop_loss) /\ ~IsNone(t.risk_reward)
               THEN Some((fill_price \div 1000)
                         * (1000 + Val(t.risk_reward) * Val(t.stop_loss)))
               ELSE None
        paid == t.paid_commission + Percent(fill_price * t.quantity, t.commission)
    IN  [t EXCEPT !.fill_price = Some(fill_price),
                  !.stop_loss_price = slp,
                  !.take_profit_price = tpp,
                  !.status = FILLED,
                  !.paid_commission = paid,
                  !.realized_pnl = t.realized_pnl - paid]

\* Trade.__fill_trade (its caller guarantees status = CREATED)
fill_trade(t, fill_price) ==
    LET slp == IF IsNone(t.stop_loss) THEN None
               ELSE Some(Percent(fill_price, 100 - t.direction * Val(t.stop_loss)))
        tpp == IF ~IsNone(t.stop_loss) /\ ~IsNone(t.risk_reward)
               THEN Some((fill_price \div 1000)
                         * (1000 + t.direction * Val(t.risk_reward) * Val(t.stop_loss)))
               ELSE None
        paid == t.paid_commission + Percent(fill_price * t.quantity, t.commission)
    IN  [t EXCEPT !.fill_price = Some(fill_price),
                  !.stop_loss_price = slp,
                  !.take_profit_price = tpp,
                  !.status = FILLED,
                  !.paid_commission = paid,
                  !.realized_pnl = t.realized_pnl - paid]

\* Trade.__has_stop_loss
has_stop_loss(t) == ~IsNone(t.stop_loss)

\* Trade.__is_stop_loss_hit with the two extremes of the candle exchanged
is_stop_loss_hit_swapped(t, high_price, low_price) ==
    IF t.direction = LONG THEN high_price <= Val(t.stop_loss_price)
    ELSE low_price >= Val(t.stop_loss_price)

\* Trade.__is_stop_loss_hit
is_stop_loss_hit(t, high_price, low_price) ==
    IF t.direction = LONG THEN low_price <= Val(t.stop_loss_price)
    ELSE high_price >= Val(t.stop_loss_price)

\* Trade.__has_take_profit
has_take_profit(t) == ~IsNone(t.take_profit_price)

\* Trade.__is_take_profit_hit
is_take_profit_hit(t, high_price, low_price) ==
    IF t.direction = LONG THEN high_price >= Val(t.take_profit_price)
    ELSE low_price <= Val(t.take_profit_price)

\* Trade.__close_trade
close_trade(t, ts, price) ==
    LET fee == Percent(price * t.quantity, t.commission)
        realized == (t.realized_pnl - fee) + SignedMove(t, price)
        pct == Frac(realized, t.quantity * Val(t.fill_price))
    IN  [t EXCEPT !.close_price = Some(price),
                  !.close_timestamp = Some(ts),
                  !.status = CLOSED,
                  !.paid_commission = t.paid_commission + fee,
                  !.realized_pnl = realized,
                  !.realized_pnl_percentage = pct,
                  !.realized_pnl_percentage_discounted = Discounted(pct, t.time_in_trade),
                  !.unrealized_pnl = 0,
                  !.unrealized_pnl_percentage = Zero,
                  !.unrealized_pnl_percentage_discounted = Discounted(Zero, 0)]

\* Trade.update, FILLED branch, up to and including the stop-loss check.
stop_loss_check(t, md) ==
    LET m == update_metrics(t, md.close)
    IN  IF has_stop_loss(m) /\ is_stop_loss_hit(m, md.high, md.low)
        THEN close_trade(m, md.timestamp, Val(m.stop_loss_price))
        ELSE m

\* Trade.update, FILLED branch: the take-profit check follows the stop-loss
\* check whatever the stop-loss check did.
take_profit_check(t, md) ==
    IF has_take_profit(t) /\ is_take_profit_hit(t, md.high, md.low)
    THEN close_trade(t, md.timestamp, Val(t.take_profit_price))
    ELSE t

\* Trade.update with the fill/reject test no longer nested under the test
\* for CREATED: a trade of any live status is filled or rejected by timestamp.
update_unnested(t, md) ==
    IF t.status = CLOSED \/ t.status = REJECTED THEN t
    ELSE IF ~md.isTraded THEN t
    ELSE LET u == [t EXCEPT !.last_update_timestamp = md.timestamp]
         IN  IF md.timestamp = u.execution_timestamp /\ u.status = CREATED
             THEN fill_trade(u, md.close)
             ELSE IF md.timestamp > u.execution_timestamp
                  THEN reject_trade(u)
                  ELSE u

\* Trade.update filling at the slice's open instead of its close
update_fill_at_open(t, md) ==
    IF t.status = CLOSED \/ t.status = REJECTED THEN t
    ELSE IF ~md.isTraded THEN t
    ELSE LET u == [t EXCEPT !.last_update_timestamp = md.timestamp]
         IN  IF u.status = CREATED
             THEN IF md.timestamp = u.execution_timestamp
                  THEN fill_trade(u, md.open)
                  ELSE IF md.timestamp > u.execution_timestamp
                       THEN reject_trade(u)
                       ELSE u
             ELSE take_profit_check(stop_loss_check(u, md), md)

\* Trade.update filling a CREATED trade on any slice at or after its execution time
update_late_fill(t, md) ==
    IF t.status = CLOSED \/ t.status = REJECTED THEN t
    ELSE IF ~md.isTraded THEN t
    ELSE LET u == [t EXCEPT !.last_update_timestamp = md.timestamp]
         IN  IF u.status = CREATED
             THEN IF md.timestamp >= u.execution_timestamp
                  THEN fill_trade(u, md.close)
                  ELSE u
             ELSE take_profit_check(stop_loss_check(u, md), md)

\* Trade.update filling a CREATED trade on any slice at or before its execution time
update_early_fill(t, md) ==
    IF t.status = CLOSED \/ t.status = REJECTED THEN t
    ELSE IF ~md.isTraded THEN t
    ELSE LET u == [t EXCEPT !.last_update_timestamp = md.timestamp]
         IN  IF u.status = CREATED
             THEN IF md.timestamp <= u.execution_timestamp
                  THEN fill_trade(u, md.close)
                  ELSE reject_trade(u)
             ELSE take_profit_check(stop_loss_check(u, md), md)

\* Trade.update without the test of the slice's isTraded flag
update_ungated(t, md) ==
    IF t.status = CLOSED \/ t.status = REJECTED THEN t
    ELSE LET u == [t EXCEPT !.last_update_timestamp = md.timestamp]
         IN  IF u.status = CREATED
             THEN IF md.timestamp = u.execution_timestamp
                  THEN fill_trade(u, md.close)
                  ELSE IF md.timestamp > u.execution_timestamp
                       THEN reject_trade(u)
                       ELSE u
             ELSE take_profit_check(stop_loss_check(u, md), md)

\* Trade.update(md) raises ZeroDivisionError: a FILLED trade of notional 0
\* is given a traded slice
divides_by_zero(t, md) ==
    /\ t.status = FILLED
    /\ md.isTraded
    /\ Notional(t) = 0

\* Trade.update for a slice md = [timestamp, isTraded, open, high, low, close];
\* when it raises, the trade as the exception leaves it
update(t, md) ==
    IF t.status = CLOSED \/ t.status = REJECTED THEN t
    ELSE IF ~md.isTraded THEN t
    ELSE LET u == [t EXCEPT !.last_update_timestamp = md.timestamp]
         IN  IF u.status = CREATED
             THEN IF md.timestamp = u.execution_timestamp
                  THEN fill_trade(u, md.close)
                  ELSE IF md.timestamp > u.execution_timestamp
                       THEN reject_trade(u)
                       ELSE u
             ELSE IF divides_by_zero(u, md) THEN update_metrics(u, md.close)
             ELSE take_profit_check(stop_loss_check(u, md), md)

\* The trade as it is the first time its status is terminal inside update(t, md);
\* None when update(t, md) does not make a live trade terminal.
FirstTerminal(t, md) ==
    IF t.status \in {CLOSED, REJECTED} \/ ~md.isTraded THEN None
    ELSE IF divides_by_zero(t, md) THEN None
    ELSE LET u == [t EXCEPT !.last_update_timestamp = md.timestamp]
         IN  IF u.status = CREATED
             THEN IF update(t, md).status = REJECTED THEN Some(update(t, md)) ELSE None
             ELSE IF stop_loss_check(u, md).status = CLOSED
                  THEN Some(stop_loss_check(u, md))
                  ELSE IF update(t, md).status = CLOSED THEN Some(update(t, md))
                       ELSE None

-----------------------------------------------------------------------------
(* The dataset BinanceFetcher.fetch_data hands to Market.prepare *)

\* One row of the dataset: a candle of the symbol (a gap row is all zero).
Candle(ts, isTraded, open, high, low, close) ==
    [timestamp |-> ts, isTraded |-> isTraded, open |-> Fix(open),
     high |-> Fix(high), low |-> Fix(low), close |-> Fix(close)]

\* The candle of grid point k: a repeating tape of a quiet candle, a wide one,
\* a dip, an exchange gap and a spike.
TapeCandle(k) ==
    LET ts == k * Timedelta
        j == k % 6
    IN  CASE j = 0 -> Candle(ts, TRUE, 100, 101, 99, 100)
          [] j = 1 -> Candle(ts, TRUE, 100, 104, 96, 99)
          [] j = 2 -> Candle(ts, TRUE, 100, 101, 99, 100)
          [] j = 3 -> Candle(ts, TRUE, 100, 101, 97, 99)
          [] j = 4 -> Candle(ts, FALSE, 0, 0, 0, 0)
          [] OTHER -> Candle(ts, TRUE, 100, 103, 99, 102)

\* The dataset whose first candle is grid point r: every grid timestamp of
\* the range has a row (fetch_data builds the full index and zero-fills gaps).
Dataset(r) ==
    [ts \in {k * Timedelta : k \in r..(r + NumTimestamps - 1)} |->
        TapeCandle(ts \div Timedelta)]

-----------------------------------------------------------------------------
(* market.py: Market *)

Min(S) == CHOOSE x \in S : \A y \in S : x <= y
Max(S) == CHOOSE x \in S : \A y \in S : x >= y

\* Market.since and Market.until as prepare sets them
since == Min(DOMAIN data)
until == Max(DOMAIN data)

\* len(pd.date_range(start=since, end=until, freq=timedelta))
GridLength == ((until - since) \div Timedelta) + 1

IsTerminal(t) == t.status \in {CLOSED, REJECTED}

Range(f) == {f[k] : k \in DOMAIN f}

\* Market.__notify_observers without its pruning statement
SelectAll(obs, tr) == obs

\* isinstance(observer, Trade): trade i is observer i, and an observer of
\* another class is observer -j, with its state in leavers[j]
IsTrade(o) == o > 0

RECURSIVE SelectLive(_, _)
\* The list comprehension of Market.__notify_observers
SelectLive(obs, tr) ==
    IF obs = <<>> THEN <<>>
    ELSE IF IsTrade(Head(obs)) /\ IsTerminal(tr[Head(obs)]) THEN SelectLive(Tail(obs), tr)
         ELSE <<Head(obs)>> \o SelectLive(Tail(obs), tr)

RECURSIVE unregister_observer(_, _)
\* Market.unregister_observer on a prepared Market: list.remove takes the
\* first occurrence out of the list, and a missing observer changes nothing
unregister_observer(obs, o) ==
    IF obs = <<>> THEN <<>>
    ELSE IF Head(obs) = o THEN Tail(obs)
         ELSE <<Head(obs)>> \o unregister_observer(Tail(obs), o)

\* The status recorded for a callback to an observer that is not a Trade
OBSERVER == "OBSERVER"

\* The update callback of an observer that leaves the Market on its own, as
\* BoundedTrade.update_mktData does when it closes: leavers[j] is the number
\* of callbacks it still sits through, and at 0 the callback calls
\* market.unregister_observer(self).
Leave(run, o, ts) ==
    [run EXCEPT
        !.delivered = Append(@, [trade |-> o, status |-> OBSERVER, timestamp |-> ts]),
        !.leavers[-o] = IF @ = 0 THEN 0 ELSE @ - 1,
        !.observers = IF run.leavers[-o] = 0 THEN unregister_observer(@, o) ELSE @]

\* A callback that leaves a trade alone once another trade has been given
\* the same slice
Callback_coupled(run, i, md) ==
    [run EXCEPT
        !.trades[i] = IF \E j \in DOMAIN run.trades :
                              j # i /\ run.trades[j].last_update_timestamp = md.timestamp
                       THEN @ ELSE update(@, md),
        !.delivered = Append(@, [trade |-> i, status |-> run.trades[i].status,
                                 timestamp |-> md.timestamp])]

\* What one callback observer.update(md) does to the run: the trade, the
\* record of the callback and the record of a first terminal status.
Callback(run, i, md) ==
    IF ~IsTrade(i) THEN Leave(run, i, md.timestamp)
    ELSE
    [ trades |-> [run.trades EXCEPT ![i] = update(run.trades[i], md)],
      delivered |-> Append(run.delivered,
                           [trade |-> i, status |-> run.trades[i].status,
                            timestamp |-> md.timestamp]),
      snap |-> IF IsNone(FirstTerminal(run.trades[i], md)) THEN run.snap
               ELSE [run.snap EXCEPT ![i] = FirstTerminal(run.trades[i], md)],
      observers |-> run.observers,
      leavers |-> run.leavers,
      raised |-> IF divides_by_zero(run.trades[i], md) THEN Some("ZeroDivisionError")
                 ELSE run.raised ]

RECURSIVE UpdateEach_striding(_, _, _)
\* A loop that passes over every second observer
UpdateEach_striding(run, k, md) ==
    IF k > Len(run.observers) THEN run
    ELSE UpdateEach_striding(Callback(run, run.observers[k], md), k + 2, md)

RECURSIVE UpdateEach(_, _, _)
\* The for loop of Market.__notify_observers.  It walks self.observers, the
\* very list unregister_observer removes from, by position: the k-th pass
\* takes the element that is k-th at that moment and stops when k is past
\* the end of the list as it then is, or when a callback has raised.
UpdateEach(run, k, md) ==
    IF k > Len(run.observers) \/ ~IsNone(run.raised) THEN run
    ELSE UpdateEach(Callback(run, run.observers[k], md), k + 1, md)

\* Market.__notify_observers: prune, then update the remaining observers
notify_observers(obs, tr, snap, lv, md) ==
    [ observers |-> SelectLive(obs, tr),
      run |-> UpdateEach([trades |-> tr, delivered |-> <<>>, snap |-> snap,
                          observers |-> SelectLive(obs, tr), leavers |-> lv,
                          raised |-> None],
                         1, md) ]

\* A range test that looks at the end of the window only
WindowInRange_end_only(ts, rollback_periods) == ts <= until

\* The rows Market.get_market_data selects with data.loc: the candles from
\* start_timestamp to end_timestamp, both included
Window(ts, rollback_periods) ==
    LET start_timestamp == ts - rollback_periods * Timedelta
    IN  [t \in {x \in DOMAIN data : x >= start_timestamp /\ x <= ts} |-> data[t]]

\* Market.get_market_data raises ValueError outside [since, until]
WindowInRange(ts, rollback_periods) ==
    /\ ts <= until
    /\ ts - rollback_periods * Timedelta >= since

\* How a call ended: normally ("ok") or with the exception named, the value
\* it returned and the arguments it was given, when they are of interest
\* (None otherwise).
Returned(op, result, value) == [op |-> op, result |-> result, value |-> value, args |-> None]
Call(op, result) == Returned(op, result, None)
CallWith(op, args, result) == [op |-> op, result |-> result, value |-> None, args |-> Some(args)]

\* A reset that ignores rollback_periods
reset_timestamp_at_since(rollback_periods, random, n) ==
    IF random THEN since + n * Timedelta ELSE since

\* A random reset that draws from the whole grid
reset_timestamp_any(rollback_periods, random, n) ==
    IF random THEN since + (n - rollback_periods) * Timedelta
    ELSE since + rollback_periods * Timedelta

\* The timestamp Market.reset moves to; n is the draw of np.random.randint
reset_timestamp(rollback_periods, random, n) ==
    IF random THEN since + n * Timedelta
    ELSE since + rollback_periods * Timedelta

Init ==
    /\ prepared = FALSE
    /\ data = None
    /\ timestamp = None
    /\ last_market_data = None
    /\ observers = <<>>
    /\ trades = <<>>
    /\ resets = 0
    /\ lastCall = Call("init", "ok")
    /\ delivered = <<>>
    /\ pruned = {}
    /\ terminalSnap = <<>>
    /\ leavers = <<>>
    /\ broker_trades = <<>>
    /\ clock = [start_timestamp |-> 0, end_timestamp |-> 0, timestamp |-> 0, timeframe |-> 1]
    /\ clock_observers = <<>>
    /\ listeners = <<>>
    /\ clockLog = [op |-> "init", result |-> "ok", calls |-> <<>>]

\* Market.prepare, fetching the dataset that starts at grid point r
Market_prepare(r) ==
    /\ UNCHANGED clockVars
    /\ UNCHANGED brokerVars
    /\ UNCHANGED leavers
    /\ UNCHANGED <<last_market_data, observers, trades, resets, terminalSnap>>
    /\ delivered' = <<>>
    /\ pruned' = {}
    /\ IF prepared
       THEN /\ lastCall' = Call("prepare", "RuntimeError")
            /\ UNCHANGED <<prepared, data, timestamp>>
       ELSE /\ prepared' = TRUE
            /\ data' = Dataset(r)
            /\ timestamp' = Some(Min(DOMAIN Dataset(r)))
            /\ lastCall' = Call("prepare", "ok")

\* Market.reset(rollback_periods, random); n is the draw of np.random.randint
Market_reset(rollback_periods, random, n) ==
    /\ resets < MaxResets
    /\ UNCHANGED clockVars
    /\ UNCHANGED brokerVars
    /\ UNCHANGED leavers
    /\ UNCHANGED <<prepared, data, trades, terminalSnap>>
    /\ delivered' = <<>>
    /\ pruned' = {}
    /\ IF ~prepared
       THEN /\ lastCall' = Call("reset", "NotPrepared")
            /\ UNCHANGED <<timestamp, last_market_data, observers, resets>>
       ELSE IF rollback_periods >= GridLength
       THEN /\ lastCall' = Call("reset", "ValueError")
            /\ UNCHANGED <<timestamp, last_market_data, observers, resets>>
       ELSE LET ts == reset_timestamp(rollback_periods, random, n)
            IN  /\ n \in rollback_periods..(GridLength - 1)
                /\ timestamp' = Some(ts)
                /\ observers' = <<>>
                /\ last_market_data' = Some(data[ts])
                /\ resets' = resets + 1
                /\ lastCall' = CallWith("reset",
                                    [rollback_periods |-> rollback_periods, random |-> random],
                                    IF WindowInRange(ts, rollback_periods)
                                    THEN "ok" ELSE "ValueError")

\* Market.next(rollback_periods)
Market_next(rollback_periods) ==
    /\ UNCHANGED clockVars
    /\ UNCHANGED brokerVars
    /\ UNCHANGED <<prepared, data, resets>>
    /\ IF ~prepared
       THEN /\ lastCall' = Call("next", "NotPrepared")
            /\ delivered' = <<>>
            /\ pruned' = {}
            /\ UNCHANGED <<timestamp, last_market_data, observers, trades, terminalSnap, leavers>>
       ELSE LET next_timestamp == Val(timestamp) + Timedelta
            IN  /\ next_timestamp <= until + MaxOvershoot * Timedelta
                \* past the end a ValueError is built and dropped, not raised
                /\ timestamp' = Some(next_timestamp)
                /\ IF next_timestamp \notin DOMAIN data
                   THEN \* __update_mktData: data.loc raises KeyError
                        /\ lastCall' = Call("next", "KeyError")
                        /\ delivered' = <<>>
                        /\ pruned' = {}
                        /\ UNCHANGED <<last_market_data, observers, trades, terminalSnap, leavers>>
                   ELSE LET md == data[next_timestamp]
                            out == notify_observers(observers, trades, terminalSnap, leavers, md)
                        IN  /\ last_market_data' = Some(md)
                            /\ observers' = out.run.observers
                            /\ leavers' = out.run.leavers
                            /\ trades' = out.run.trades
                            /\ delivered' = out.run.delivered
                            /\ pruned' = Range(observers) \ Range(out.observers)
                            /\ terminalSnap' = out.run.snap
                            /\ lastCall' = Call("next",
                                   IF ~IsNone(out.run.raised) THEN Val(out.run.raised)
                                   ELSE IF WindowInRange(next_timestamp, rollback_periods)
                                   THEN "ok" ELSE "ValueError")

\* Market.register_observer(trade i)
Market_register_observer(i) ==
    /\ i \in DOMAIN trades
    \* a trade is subscribed at most once at a time
    /\ \A k \in DOMAIN observers : observers[k] # i
    /\ UNCHANGED clockVars
    /\ UNCHANGED brokerVars
    /\ UNCHANGED leavers
    /\ UNCHANGED <<prepared, data, timestamp, last_market_data, resets>>
    /\ pruned' = {}
    /\ IF ~prepared
       THEN /\ lastCall' = Call("register_observer", "NotPrepared")
            /\ delivered' = <<>>
            /\ UNCHANGED <<observers, trades, terminalSnap>>
       ELSE /\ observers' = Append(observers, i)
            /\ IF IsNone(last_market_data)
               THEN \* observer.update(None)
                    /\ delivered' = <<[trade |-> i, status |-> trades[i].status,
                                       timestamp |-> Val(timestamp)]>>
                    /\ lastCall' = Call("register_observer",
                                        IF IsTerminal(trades[i]) THEN "ok"
                                        ELSE "AttributeError")
                    /\ UNCHANGED <<trades, terminalSnap>>
               ELSE LET run == Callback([trades |-> trades, delivered |-> <<>>,
                                         snap |-> terminalSnap,
                                         observers |-> Append(observers, i),
                                         leavers |-> leavers, raised |-> None],
                                        i, Val(last_market_data))
                    IN  /\ trades' = run.trades
                        /\ delivered' = run.delivered
                        /\ terminalSnap' = run.snap
                        /\ lastCall' = Call("register_observer",
                                            IF IsNone(run.raised) THEN "ok"
                                            ELSE Val(run.raised))

\* Observers of another class registered in one run.
MaxLeavers == 2
\* Largest number of callbacks such an observer sits through before it leaves.
MaxPatience == 1

\* Market.register_observer(o) for a new observer o that is not a Trade and
\* leaves on its own after `patience` further callbacks
Market_register_leaver(patience) ==
    /\ Len(leavers) < MaxLeavers
    /\ UNCHANGED clockVars
    /\ UNCHANGED brokerVars
    /\ UNCHANGED <<prepared, data, timestamp, last_market_data, trades, resets, terminalSnap>>
    /\ pruned' = {}
    /\ IF ~prepared
       THEN /\ lastCall' = Call("register_observer", "NotPrepared")
            /\ delivered' = <<>>
            /\ UNCHANGED <<observers, leavers>>
       ELSE LET o == -(Len(leavers) + 1)
                run == Leave([trades |-> trades, delivered |-> <<>>,
                              snap |-> terminalSnap,
                              observers |-> Append(observers, o),
                              leavers |-> Append(leavers, patience),
                              raised |-> None], o,
                             IF IsNone(last_market_data) THEN Val(timestamp)
                             ELSE Val(last_market_data).timestamp)
            IN  /\ observers' = run.observers
                /\ leavers' = run.leavers
                /\ delivered' = run.delivered
                /\ lastCall' = Call("register_observer", "ok")

\* Market.unregister_observer(o), called by the driver between two steps
Market_unregister_observer(o) ==
    /\ UNCHANGED clockVars
    /\ UNCHANGED brokerVars
    /\ UNCHANGED <<prepared, data, timestamp, last_market_data, trades, resets, terminalSnap, leavers>>
    /\ delivered' = <<>>
    /\ pruned' = {}
    /\ IF ~prepared
       THEN /\ lastCall' = Call("unregister_observer", "NotPrepared")
            /\ UNCHANGED observers
       ELSE /\ observers' = unregister_observer(observers, o)
            /\ lastCall' = Call("unregister_observer", "ok")

\* Market.get_market_data(ts, rollback_periods) on a Market constructed with
\* the default until=None.  It does not call __check_preparation: before
\* prepare() the comparison end_timestamp > self.until is Timestamp > None.
Market_get_market_data(ts, rollback_periods) ==
    /\ UNCHANGED clockVars
    /\ UNCHANGED brokerVars
    /\ UNCHANGED <<prepared, data, timestamp, last_market_data, observers, trades, resets, terminalSnap, leavers>>
    /\ delivered' = <<>>
    /\ pruned' = {}
    /\ LET args == [timestamp |-> ts, rollback_periods |-> rollback_periods]
       IN  IF ~prepared
           THEN lastCall' = CallWith("get_market_data", args, "TypeError")
           ELSE IF ~WindowInRange(ts, rollback_periods)
           THEN lastCall' = CallWith("get_market_data", args, "ValueError")
           ELSE lastCall' = [CallWith("get_market_data", args, "ok") EXCEPT
                                !.value = Some(Window(ts, rollback_periods))]

Quantities == {2}
StopLosses == {None, Some(2)}
RiskRewards == {None, Some(15)}
Commissions == {0, 1}
\* Datasets tried: the windows of the candle tape that start at these grid points.
Rotations == {0, 1, 2}
\* execution_timestamp: left out, or one interval after the creation
ExecutionDelays == {None, Some(1)}

\* The driver constructs a Trade at the Market's current timestamp.
NewTrade(direction, quantity, delay, stop_loss, risk_reward, commission) ==
    /\ prepared
    /\ UNCHANGED clockVars
    /\ UNCHANGED brokerVars
    /\ UNCHANGED leavers
    /\ UNCHANGED <<prepared, data, timestamp, last_market_data, observers, resets>>
    /\ trades' = Append(trades,
           Trade(Len(trades) + 1, Val(timestamp), direction, quantity, 1,
                 IF IsNone(delay) THEN None
                 ELSE Some(Val(timestamp) + Val(delay) * Timedelta),
                 stop_loss, risk_reward, commission))
    /\ terminalSnap' = Append(terminalSnap, None)
    /\ delivered' = <<>>
    /\ pruned' = {}
    /\ lastCall' = Call("Trade", "ok")

-----------------------------------------------------------------------------
(* broker.py: Broker *)

\* Trade objects constructed in one run of the broker scenario.
MaxBrokerTrades == 3

\* Broker.openTrade(id, symbol, direction, ...).  The arguments of the Trade
\* constructor are evaluated first, and self.market.timedelta is not an
\* attribute of Market (its interval is the private __timedelta), so the
\* call raises AttributeError before a Trade exists.
Broker_openTrade(id, direction) ==
    /\ UNCHANGED clockVars
    /\ UNCHANGED <<prepared, data, timestamp, last_market_data, observers, trades, resets, terminalSnap>>
    /\ UNCHANGED leavers
    /\ UNCHANGED broker_trades
    /\ delivered' = <<>>
    /\ pruned' = {}
    /\ lastCall' = Returned("openTrade", "AttributeError", Some(id))

\* Broker.trades is a plain list attribute: the caller appends a trade it
\* constructed itself (openTrade never reaches its own append).  Trades are
\* booked in the order of their construction.
Broker_trades_append(i) ==
    /\ i \in DOMAIN trades
    /\ \A k \in DOMAIN broker_trades : broker_trades[k] < i
    /\ UNCHANGED clockVars
    /\ UNCHANGED <<prepared, data, timestamp, last_market_data, observers, trades, resets, terminalSnap>>
    /\ UNCHANGED leavers
    /\ broker_trades' = Append(broker_trades, i)
    /\ delivered' = <<>>
    /\ pruned' = {}
    /\ lastCall' = Call("trades.append", "ok")

\* The body of Broker.openTrade as a caller runs it by hand, the three
\* statements in their written order and nothing in between: construct the
\* Trade with the env's parameters at the Market's timestamp, executed at
\* once; market.register_observer(trade), which appends it to the subscriber
\* list and pushes the current slice; self.trades.append(trade).
Broker_book(direction) ==
    /\ prepared
    /\ ~IsNone(last_market_data)
    /\ UNCHANGED clockVars
    /\ UNCHANGED leavers
    /\ UNCHANGED <<prepared, data, timestamp, last_market_data, resets>>
    /\ LET i == Len(trades) + 1
           t == Trade(i, Val(timestamp), direction, 1, 1, None, Some(2), Some(15), 1)
           run == Callback([trades |-> Append(trades, t), delivered |-> <<>>,
                            snap |-> Append(terminalSnap, None),
                            observers |-> Append(observers, i),
                            leavers |-> leavers, raised |-> None],
                           i, Val(last_market_data))
       IN  /\ trades' = run.trades
           /\ observers' = run.observers
           /\ terminalSnap' = run.snap
           /\ delivered' = run.delivered
           /\ broker_trades' = Append(broker_trades, i)
           /\ pruned' = {}
           /\ lastCall' = Call("trades.append", "ok")

\* A reset that leaves the trade list as it was
Broker_reset_keeping ==
    /\ UNCHANGED clockVars
    /\ UNCHANGED <<prepared, data, timestamp, last_market_data, observers, trades, resets, terminalSnap>>
    /\ UNCHANGED leavers
    /\ UNCHANGED broker_trades
    /\ delivered' = <<>>
    /\ pruned' = {}
    /\ lastCall' = Call("Broker.reset", "ok")

\* Broker.reset
Broker_reset ==
    /\ UNCHANGED clockVars
    /\ UNCHANGED <<prepared, data, timestamp, last_market_data, observers, trades, resets, terminalSnap>>
    /\ UNCHANGED leavers
    /\ broker_trades' = <<>>
    /\ delivered' = <<>>
    /\ pruned' = {}
    /\ lastCall' = Call("Broker.reset", "ok")

RECURSIVE get_realized_profit(_, _)
\* Broker.get_realized_profit over the trade list bt
get_realized_profit(bt, tr) ==
    IF bt = <<>> THEN 0
    ELSE get_realized_profit(SubSeq(bt, 1, Len(bt) - 1), tr)
         + (IF tr[bt[Len(bt)]].status = CLOSED THEN tr[bt[Len(bt)]].realized_pnl ELSE 0)

RECURSIVE get_unrealized_profit(_, _)
\* Broker.get_unrealized_profit
get_unrealized_profit(bt, tr) ==
    IF bt = <<>> THEN 0
    ELSE get_unrealized_profit(SubSeq(bt, 1, Len(bt) - 1), tr)
         + (IF tr[bt[Len(bt)]].status = FILLED THEN tr[bt[Len(bt)]].unrealized_pnl ELSE 0)

\* Broker.closed_trades_count counting every terminal trade
terminal_trades_count(bt, tr) ==
    Len(SelectSeq(bt, LAMBDA i : tr[i].status \in {CLOSED, REJECTED}))

\* Broker.closed_trades_count
closed_trades_count(bt, tr) ==
    Len(SelectSeq(bt, LAMBDA i : tr[i].status = CLOSED))

\* Broker.open_trades_count
open_trades_count(bt, tr) ==
    Len(SelectSeq(bt, LAMBDA i : tr[i].status = FILLED))

\* Broker.winning_trades_count
winning_trades_count(bt, tr) ==
    Len(SelectSeq(bt, LAMBDA i : tr[i].status = CLOSED /\ tr[i].realized_pnl > 0))

\* Broker.losing_trades_count
losing_trades_count(bt, tr) ==
    Len(SelectSeq(bt, LAMBDA i : tr[i].status = CLOSED /\ tr[i].realized_pnl < 0))

\* "{:.2%}".format(w / c): the ratio as a percentage rounded to two decimals,
\* here as the number of hundredths of a percent in the string.
FormatPercent(w, c) == (2 * 10000 * w + c) \div (2 * c)

\* Broker.info
Broker_info ==
    /\ UNCHANGED clockVars
    /\ UNCHANGED <<prepared, data, timestamp, last_market_data, observers, trades, resets, terminalSnap>>
    /\ UNCHANGED leavers
    /\ UNCHANGED broker_trades
    /\ delivered' = <<>>
    /\ pruned' = {}
    /\ lastCall' = Returned("info", "ok", Some(
           [ Timestamp |-> timestamp,
             NumberOfTrades |-> Len(broker_trades),
             RealizedProfit |-> get_realized_profit(broker_trades, trades),
             UnrealizedProfit |-> get_unrealized_profit(broker_trades, trades),
             ClosedTradesCount |-> closed_trades_count(broker_trades, trades),
             OpenTradesCount |-> open_trades_count(broker_trades, trades),
             WinningTradesCount |-> winning_trades_count(broker_trades, trades),
             LosingTradesCount |-> losing_trades_count(broker_trades, trades),
             WinRate |-> IF closed_trades_count(broker_trades, trades) > 0
                         THEN Some(FormatPercent(winning_trades_count(broker_trades, trades),
                                                 closed_trades_count(broker_trades, trades)))
                         ELSE None ]))

-----------------------------------------------------------------------------
(* clock.py: Clock.  An observer is any object with update_timestamp and   *)
(* reset; listeners[o] is the last timestamp observer o was given.         *)

\* Observers registered with the Clock in one run.
MaxListeners == 2
\* Largest steps_number given to Clock.advance.
MaxSteps == 2

\* len(pd.date_range(start=start_timestamp, end=end_timestamp, freq=timeframe))
ClockGridLength == ((clock.end_timestamp - clock.start_timestamp) \div clock.timeframe) + 1

\* Clock.has_reached_end
has_reached_end == clock.timestamp >= clock.end_timestamp

\* The Market as an observer of the Clock; any other observer o >= 1 is an
\* object with update_timestamp and reset.  Market has reset (market.py
\* 92-127) and no update_timestamp: the call raises AttributeError.
MarketObserver == 0

\* One callback of the Clock to observer o
Notice(kind, o, ts) == [kind |-> kind, observer |-> o, timestamp |-> ts]

RECURSIVE NoticeEach(_, _, _)
NoticeEach(kind, obs, ts) ==
    IF obs = <<>> THEN <<>>
    ELSE <<Notice(kind, Head(obs), ts)>> \o NoticeEach(kind, Tail(obs), ts)

RECURSIVE Before(_, _)
\* The observers a loop over obs reaches before it comes to observer o
Before(obs, o) ==
    IF obs = <<>> \/ Head(obs) = o THEN <<>>
    ELSE <<Head(obs)>> \o Before(Tail(obs), o)

\* Clock.notify_observers with only its first observer notified
Clock_notify_observers_head(obs, ts) ==
    NoticeEach("update_timestamp", IF obs = <<>> THEN <<>> ELSE <<Head(obs)>>, ts)

\* Clock.notify_observers: the callbacks it makes, in order, up to the
\* observer that has no update_timestamp
Clock_notify_observers(obs, ts) ==
    NoticeEach("update_timestamp", Before(obs, MarketObserver), ts)

\* How Clock.notify_observers ends
notify_result(obs) ==
    IF MarketObserver \in Range(obs) THEN "AttributeError" ELSE "ok"

\* Clock.reset_observers: the callbacks it makes, in order; Market.reset
\* raises on a Market that is not prepared
Clock_reset_observers(obs, ts) ==
    IF MarketObserver \in Range(obs) /\ ~prepared
    THEN NoticeEach("reset", Before(obs, MarketObserver) \o <<MarketObserver>>, ts)
    ELSE NoticeEach("reset", obs, ts)

\* The observers after Clock.notify_observers gave them ts
Notified(ls, obs, ts) ==
    [o \in DOMAIN ls |->
        IF \E k \in DOMAIN obs : obs[k] = o THEN Some(ts) ELSE ls[o]]

RECURSIVE NextNotices(_, _, _, _)
\* The callbacks of `steps` consecutive Clock.next calls starting from ts
NextNotices(steps, obs, ts, timeframe) ==
    IF steps = 0 THEN <<>>
    ELSE Clock_notify_observers(obs, ts + timeframe)
         \o NextNotices(steps - 1, obs, ts + timeframe, timeframe)

\* Clock.reset(random); n is the draw of np.random.randint(0, len(timestamps))
Clock_reset(random, n) ==
    /\ UNCHANGED brokerVars
    /\ UNCHANGED <<prepared, data, trades, resets, terminalSnap, leavers>>
    /\ n \in 0..(ClockGridLength - 1)
    /\ LET ts == IF random THEN clock.start_timestamp + n * clock.timeframe
                 ELSE clock.start_timestamp
           cascades == MarketObserver \in Range(clock_observers)
       IN  /\ clock' = [clock EXCEPT !.timestamp = ts]
           /\ UNCHANGED clock_observers
           /\ IF cascades /\ ~prepared
              THEN \* reset_observers: Market.reset() raises, nobody is notified
                   /\ clockLog' = [op |-> "reset", result |-> "NotPrepared",
                                   calls |-> Clock_reset_observers(clock_observers, ts)]
                   /\ lastCall' = Call("reset", "NotPrepared")
                   /\ delivered' = <<>>
                   /\ pruned' = {}
                   /\ UNCHANGED <<timestamp, last_market_data, observers, listeners>>
              ELSE /\ clockLog' = [op |-> "reset", result |-> notify_result(clock_observers),
                                   calls |-> Clock_reset_observers(clock_observers, ts)
                                             \o Clock_notify_observers(clock_observers, ts)]
                   /\ listeners' = Notified(listeners, Before(clock_observers, MarketObserver), ts)
                   /\ IF cascades
                      THEN \* reset_observers: Market.reset() with its defaults
                           /\ timestamp' = Some(reset_timestamp(0, FALSE, 0))
                           /\ observers' = <<>>
                           /\ last_market_data' = Some(data[reset_timestamp(0, FALSE, 0)])
                           /\ lastCall' = CallWith("reset",
                                              [rollback_periods |-> 0, random |-> FALSE], "ok")
                           /\ delivered' = <<>>
                           /\ pruned' = {}
                      ELSE UNCHANGED <<timestamp, last_market_data, observers,
                                       lastCall, delivered, pruned>>

\* Clock.next
Clock_next ==
    /\ UNCHANGED marketVars
    /\ UNCHANGED brokerVars
    /\ LET next_timestamp == clock.timestamp + clock.timeframe
       IN  /\ next_timestamp <= clock.end_timestamp + MaxOvershoot * clock.timeframe
           \* past the end a ValueError is built and dropped, not raised
           /\ clock' = [clock EXCEPT !.timestamp = next_timestamp]
           /\ listeners' = Notified(listeners, Before(clock_observers, MarketObserver),
                                    next_timestamp)
           /\ clockLog' = [op |-> "next", result |-> notify_result(clock_observers),
                           calls |-> Clock_notify_observers(clock_observers, next_timestamp)]
           /\ UNCHANGED clock_observers

\* Clock.advance(steps_number): steps_number calls of Clock.next, the loop
\* ending at the first call that raises
Clock_advance(steps_number) ==
    /\ UNCHANGED marketVars
    /\ UNCHANGED brokerVars
    /\ LET taken == IF MarketObserver \in Range(clock_observers) /\ steps_number > 0
                    THEN 1 ELSE steps_number
           last == clock.timestamp + taken * clock.timeframe
       IN  /\ last <= clock.end_timestamp + MaxOvershoot * clock.timeframe
           /\ clock' = [clock EXCEPT !.timestamp = last]
           /\ listeners' = IF taken = 0 THEN listeners
                           ELSE Notified(listeners, Before(clock_observers, MarketObserver), last)
           /\ clockLog' = [op |-> "advance",
                           result |-> IF taken = 0 THEN "ok"
                                      ELSE notify_result(clock_observers),
                           calls |-> NextNotices(taken, clock_observers,
                                                 clock.timestamp, clock.timeframe)]
           /\ UNCHANGED clock_observers

\* Clock.register_observer, given a fresh observer
Clock_register_observer ==
    /\ UNCHANGED marketVars
    /\ UNCHANGED brokerVars
    /\ Len(listeners) < MaxListeners
    /\ LET o == Len(listeners) + 1
       IN  /\ clock_observers' = Append(clock_observers, o)
           /\ listeners' = Append(listeners, Some(clock.timestamp))
           /\ clockLog' = [op |-> "register_observer", result |-> "ok",
                           calls |-> <<Notice("update_timestamp", o, clock.timestamp)>>]
           /\ UNCHANGED clock

\* Clock.register_observer(market): the Market is appended, then the call
\* market.update_timestamp raises AttributeError
Clock_register_market ==
    /\ UNCHANGED marketVars
    /\ UNCHANGED brokerVars
    /\ MarketObserver \notin Range(clock_observers)
    /\ clock_observers' = Append(clock_observers, MarketObserver)
    /\ clockLog' = [op |-> "register_observer", result |-> "AttributeError",
                    calls |-> <<>>]
    /\ UNCHANGED <<clock, listeners>>

\* Clock.__init__(start_timestamp, end_timestamp, timeframe)
NewClock(start_timestamp, end_timestamp, timeframe) ==
    [start_timestamp |-> start_timestamp, end_timestamp |-> end_timestamp,
     timestamp |-> start_timestamp, timeframe |-> timeframe]

ClockStarts == {0, 3}
ClockSpans == {4, 5, 6}
Timeframes == {1, 2, 3}

ClockInit ==
    /\ prepared = FALSE
    /\ data = None
    /\ timestamp = None
    /\ last_market_data = None
    /\ observers = <<>>
    /\ trades = <<>>
    /\ resets = 0
    /\ lastCall = Call("init", "ok")
    /\ delivered = <<>>
    /\ pruned = {}
    /\ terminalSnap = <<>>
    /\ leavers = <<>>
    /\ broker_trades = <<>>
    /\ \E s \in ClockStarts, d \in ClockSpans, tf \in Timeframes :
           clock = NewClock(s, s + d, tf)
    /\ clock_observers = <<>>
    /\ listeners = <<>>
    /\ clockLog = [op |-> "init", result |-> "ok", calls |-> <<>>]

ClockNext ==
    \/ \E random \in BOOLEAN, n \in 0..Max(ClockSpans) : Clock_reset(random, n)
    \/ Clock_next
    \/ \E steps \in 0..MaxSteps : Clock_advance(steps)
    \/ Clock_register_observer

ClockSpec == ClockInit /\ [][ClockNext]_vars

\* A run of a Clock and a Market side by side, each reset and stepped by the
\* driver.
ResetNext ==
    \/ \E random \in BOOLEAN, n \in 0..Max(ClockSpans) : Clock_reset(random, n)
    \/ Clock_next
    \/ Clock_register_observer
    \/ \E r \in Rotations : Market_prepare(r)
    \/ \E k \in 0..MaxRollback, random \in BOOLEAN, n \in 0..(NumTimestamps - 1) :
           Market_reset(k, random, n)
    \/ Market_next(0)

ResetSpec == ClockInit /\ [][ResetNext]_vars

\* A Clock over the range and interval of the dataset, for a Market that is
\* to follow it.
CascadeInit ==
    /\ prepared = FALSE
    /\ data = None
    /\ timestamp = None
    /\ last_market_data = None
    /\ observers = <<>>
    /\ trades = <<>>
    /\ resets = 0
    /\ lastCall = Call("init", "ok")
    /\ delivered = <<>>
    /\ pruned = {}
    /\ terminalSnap = <<>>
    /\ leavers = <<>>
    /\ broker_trades = <<>>
    /\ clock = NewClock(0, (NumTimestamps - 1) * Timedelta, Timedelta)
    /\ clock_observers = <<>>
    /\ listeners = <<>>
    /\ clockLog = [op |-> "init", result |-> "ok", calls |-> <<>>]

\* A run in which the Market is registered with the Clock and the driver
\* steps the Clock; trades are opened on the Market as the env opens them.
CascadeNext ==
    \/ Market_prepare(0)
    \/ Clock_register_market
    \/ Len(listeners) < 1 /\ Clock_register_observer
    \/ Clock_reset(FALSE, 0)
    \/ Clock_next
    \/ Market_next(0)
    \/ \E i \in DOMAIN trades :
           trades[i].status = CREATED /\ Market_register_observer(i)
    \/ \E d \in TradeDirection :
           Len(trades) < MaxTrades /\ NewTrade(d, 1, None, Some(2), Some(15), 1)

CascadeSpec == CascadeInit /\ [][CascadeNext]_vars

\* A run with one trade of any parameters.
Next ==
    \/ \E r \in Rotations : Market_prepare(r)
    \/ \E k \in 0..MaxRollback, random \in BOOLEAN, n \in 0..(NumTimestamps - 1) :
           Market_reset(k, random, n)
    \/ \E k \in 0..MaxRollback : Market_next(k)
    \/ \E i \in 1..MaxTrades : Market_register_observer(i)
    \/ \E d \in TradeDirection, q \in Quantities, e \in ExecutionDelays,
          sl \in StopLosses, rr \in RiskRewards, c \in Commissions :
           Len(trades) < MaxTrades /\ NewTrade(d, q, e, sl, rr, c)

Spec == Init /\ [][Next]_vars

\* Quantities the constructor accepts: it tests none of its arguments.
AnyQuantities == {0, 1}

\* A run with trades of the env's parameters and of any quantity.
NotionalNext ==
    \/ Market_prepare(0)
    \/ \E k \in 0..1 : Market_reset(k, FALSE, k)
    \/ Market_next(0)
    \/ \E i \in DOMAIN trades :
           trades[i].status = CREATED /\ Market_register_observer(i)
    \/ \E d \in TradeDirection, q \in AnyQuantities :
           Len(trades) < MaxBook /\ NewTrade(d, q, None, Some(2), Some(15), 1)

NotionalSpec == Init /\ [][NotionalNext]_vars

\* A run with a book of trades, each opened the way SimpleTradingEnv.perform_action
\* opens them: quantity 1, stop_loss 0.02, risk_reward 1.5, executed at once.
BookNext ==
    \/ Market_prepare(0)
    \/ \E k \in 0..MaxRollback, random \in BOOLEAN, n \in 0..(NumTimestamps - 1) :
           Market_reset(k, random, n)
    \/ \E k \in 0..MaxRollback : Market_next(k)
    \/ \E i \in 1..MaxBook : Market_register_observer(i)
    \/ \E d \in TradeDirection :
           Len(trades) < MaxBook /\ NewTrade(d, 1, None, Some(2), Some(15), 1)

BookSpec == Init /\ [][BookNext]_vars

\* A run with trades of the env's parameters and observers of another class
\* on one Market, every public operation of the Market in use.
ObserverNext ==
    \/ Market_prepare(0)
    \/ \E k \in 0..1 : Market_reset(k, FALSE, k)
    \/ Market_next(0)
    \/ \E i \in DOMAIN trades :
           trades[i].status = CREATED /\ Market_register_observer(i)
    \/ \E patience \in 0..MaxPatience : Market_register_leaver(patience)
    \/ \E o \in (1..MaxTrades) \cup {-j : j \in 1..MaxLeavers} : Market_unregister_observer(o)
    \/ \E r \in 0..1 :
           Market_get_market_data(IF IsNone(timestamp) THEN 0 ELSE Val(timestamp), r)
    \/ \E d \in TradeDirection :
           Len(trades) < MaxTrades /\ NewTrade(d, 1, None, Some(2), Some(15), 1)

ObserverSpec == Init /\ [][ObserverNext]_vars

\* Every trade constructed so far has been registered with the Market and
\* appended to Broker.trades.
AllBooked ==
    \A i \in DOMAIN trades :
        /\ i \in Range(broker_trades)
        /\ trades[i].status # CREATED \/ i \in Range(observers)

\* A run with a Broker on the Market.  The caller opens trades through the
\* Broker, or does by hand what openTrade is written to do (construct the
\* trade with the Broker's parameters, register it, append it), and finishes
\* that before it opens another trade or steps the Market.
BrokerNext ==
    \/ Market_prepare(0)
    \/ AllBooked /\ Market_next(0)
    \/ \E i \in DOMAIN trades :
           trades[i].status = CREATED /\ Market_register_observer(i)
    \/ \E d \in TradeDirection :
           /\ Len(trades) < MaxBrokerTrades
           /\ AllBooked
           /\ NewTrade(d, 1, None, Some(2), Some(15), 1)
    \/ \E id \in 1..MaxBrokerTrades, d \in TradeDirection : Broker_openTrade(id, d)
    \/ \E i \in 1..MaxBrokerTrades : Broker_trades_append(i)
    \/ Broker_reset
    \/ Broker_info

BrokerSpec == Init /\ [][BrokerNext]_vars

\* A run with a Broker on the Market in which trades are booked whole, and
\* the Market and the Broker are stepped and reset independently.
LedgerNext ==
    \/ Market_prepare(0)
    \/ \E k \in 0..1 : Market_reset(k, FALSE, k)
    \/ Market_next(0)
    \/ \E d \in TradeDirection : Len(trades) < MaxBrokerTrades /\ Broker_book(d)
    \/ \E id \in 1..MaxTrades, d \in TradeDirection : Broker_openTrade(id, d)
    \/ Broker_reset

LedgerSpec == Init /\ [][LedgerNext]_vars

-----------------------------------------------------------------------------
(* Properties *)

\* C1: whatever the calls, a trade's status changes only along CREATED->FILLED,
\* CREATED->REJECTED and FILLED->CLOSED.
C1_StatusTransitions ==
    [][\A i \in DOMAIN trades :
          \/ trades'[i].status = trades[i].status
          \/ <<trades[i].status, trades'[i].status>> \in
                 {<<CREATED, FILLED>>, <<CREATED, REJECTED>>, <<FILLED, CLOSED>>}]_vars

\* A trade went CREATED->FILLED->CLOSED and the Market has stepped since.
C1_Witness ==
    \E i \in DOMAIN trades :
        /\ trades[i].status = CLOSED
        /\ trades[i].time_in_trade >= 1
        /\ lastCall.op = "next"

\* C2: a trade with a stop-loss and a take-profit price whose closing candle
\* satisfies both triggers is closed at its stop-loss price.
C2_StopLossWinsTie ==
    \A i \in DOMAIN trades :
        LET t == trades[i]
        IN  ( /\ t.status = CLOSED
              /\ has_stop_loss(t)
              /\ has_take_profit(t)
              /\ LET md == data[Val(t.close_timestamp)]
                 IN  /\ is_stop_loss_hit(t, md.high, md.low)
                     /\ is_take_profit_hit(t, md.high, md.low) )
            => t.close_price = t.stop_loss_price

\* C3: a closed trade has paid the entry commission and exactly one exit
\* commission, and its realized P&L is the signed price move less that total.
C3_CommissionExact ==
    \A i \in DOMAIN trades :
        LET t == trades[i]
        IN  t.status = CLOSED =>
              /\ t.paid_commission =
                     Percent(Val(t.fill_price) * t.quantity, t.commission)
                     + Percent(Val(t.close_price) * t.quantity, t.commission)
              /\ t.realized_pnl = SignedMove(t, Val(t.close_price)) - t.paid_commission

\* C4: every update callback the Market makes, in a broadcast or at
\* registration, finds the receiving trade CREATED or FILLED.
C4_NoCallbackToTerminal ==
    \A k \in DOMAIN delivered : delivered[k].status \in {CREATED, FILLED}

C6_ClockInRange ==
    /\ clock.start_timestamp <= clock.timestamp
    /\ clock.timestamp <= clock.end_timestamp
    /\ (clock.timestamp - clock.start_timestamp) % clock.timeframe = 0

\* C7: Clock.next() called when timestamp + timeframe > end_timestamp signals an
\* error, leaves the timestamp alone and notifies no observer.
C7_ClockNextStopsAtEnd ==
    [][(clockLog'.op = "next"
        /\ clock.timestamp + clock.timeframe > clock.end_timestamp) =>
          /\ clockLog'.result # "ok"
          /\ clock'.timestamp = clock.timestamp
          /\ clockLog'.calls = <<>>]_vars

\* C8: Market.next() past the end of the data fails without advancing; when it
\* succeeds the timestamp is one interval later, the slice is the slice of the
\* new timestamp and every callback carries it.
C8_MarketNextStopsAtEnd ==
    [][(lastCall'.op = "next" /\ prepared) =>
          IF Val(timestamp) + Timedelta > until
          THEN /\ lastCall'.result # "ok"
               /\ timestamp' = timestamp
          ELSE lastCall'.result = "ok" =>
                 /\ timestamp' = Some(Val(timestamp) + Timedelta)
                 /\ last_market_data' = Some(data[Val(timestamp) + Timedelta])
                 /\ \A k \in DOMAIN delivered' :
                       delivered'[k].timestamp = Val(timestamp')]_vars

\* C9: the timestamp of a prepared Market is a timestamp of the dataset.
C9_TimestampInDataset ==
    prepared => Val(timestamp) \in DOMAIN data

\* C10: a trade that is CLOSED or REJECTED is as it was when it first became
\* so, and a callback to such a trade raises nothing.
C10_TerminalFrozen ==
    /\ \A i \in DOMAIN trades :
          IsTerminal(trades[i]) => terminalSnap[i] = Some(trades[i])
    /\ ( /\ lastCall.op = "register_observer"
         /\ delivered # <<>>
         /\ ~(delivered[1].status \in {CREATED, FILLED}) )
       => lastCall.result = "ok"

\* C12: a CREATED trade whose execution_timestamp equals its creation_timestamp
\* is FILLED by any slice it is given, at the close of that slice.
C12_FillsOnNextBroadcast ==
    [][\A k \in DOMAIN delivered' :
          LET i == delivered'[k].trade
          IN  ( /\ delivered'[k].status = CREATED
                /\ ~IsNone(last_market_data')
                /\ trades[i].execution_timestamp = trades[i].creation_timestamp )
              => /\ trades'[i].status = FILLED
                 /\ trades'[i].fill_price = Some(Val(last_market_data').close)]_vars

\* C12 as amended: a CREATED trade is FILLED by a broadcast whose slice is
\* traded and carries the trade's execution_timestamp, at that slice's close.
C12_FillsOnExecutionSlice ==
    [][\A k \in DOMAIN delivered' :
          LET i == delivered'[k].trade
          IN  ( /\ delivered'[k].status = CREATED
                /\ ~IsNone(last_market_data')
                /\ Val(last_market_data').isTraded
                /\ Val(last_market_data').timestamp = trades[i].execution_timestamp )
              => /\ trades'[i].status = FILLED
                 /\ trades'[i].fill_price = Some(Val(last_market_data').close)]_vars

\* The push at registration has just filled a trade created on this tick, on
\* a candle whose close differs from its open.
C12_Witness ==
    /\ lastCall.op = "register_observer"
    /\ delivered # <<>>
    /\ delivered[1].status = CREATED
    /\ LET t == trades[delivered[1].trade]
       IN  /\ t.status = FILLED
           /\ t.execution_timestamp = t.creation_timestamp
           /\ t.fill_price = Some(Val(last_market_data).close)
           /\ Val(last_market_data).close # Val(last_market_data).open

\* C13: a trade turns FILLED only on a traded slice that carries its
\* execution_timestamp; a CREATED trade given a traded slice later than its
\* execution_timestamp turns REJECTED; a REJECTED trade has paid no
\* commission, has no realized P&L and no fill price.
C13_SkippedEntryRejected ==
    [][/\ \A i \in DOMAIN trades :
             (trades[i].status = CREATED /\ trades'[i].status = FILLED) =>
                 /\ ~IsNone(last_market_data')
                 /\ Val(last_market_data').isTraded
                 /\ Val(last_market_data').timestamp = trades[i].execution_timestamp
                 /\ \E k \in DOMAIN delivered' : delivered'[k].trade = i
       /\ \A k \in DOMAIN delivered' :
             LET i == delivered'[k].trade
             IN  ( /\ delivered'[k].status = CREATED
                   /\ ~IsNone(last_market_data')
                   /\ Val(last_market_data').isTraded
                   /\ Val(last_market_data').timestamp > trades[i].execution_timestamp )
                 => trades'[i].status = REJECTED
       /\ \A i \in DOMAIN trades' :
             trades'[i].status = REJECTED =>
                 /\ trades'[i].paid_commission = 0
                 /\ trades'[i].realized_pnl = 0
                 /\ IsNone(trades'[i].fill_price)]_vars

\* A Market.next() broadcast has just rejected a trade that was waiting for a
\* tick the data skipped (a gap).
C13_Witness ==
    /\ lastCall.op = "next"
    /\ delivered # <<>>
    /\ delivered[1].status = CREATED
    /\ LET t == trades[delivered[1].trade]
       IN  /\ t.status = REJECTED
           /\ t.commission > 0
           /\ ~data[t.execution_timestamp].isTraded

\* C14: a CREATED trade given a slice earlier than its execution_timestamp
\* stays CREATED with its prices and metrics untouched, and the fill price of
\* a trade that was filled is the close of the slice at its execution_timestamp.
C14_TemporalCausality ==
    [][/\ \A k \in DOMAIN delivered' :
             LET i == delivered'[k].trade
             IN  ( /\ delivered'[k].status = CREATED
                   /\ ~IsNone(last_market_data')
                   /\ Val(last_market_data').timestamp < trades[i].execution_timestamp )
                 => trades'[i] = [trades[i] EXCEPT !.last_update_timestamp =
                                                      trades'[i].last_update_timestamp]
       /\ \A i \in DOMAIN trades' :
             trades'[i].status \in {FILLED, CLOSED} =>
                 /\ trades'[i].execution_timestamp \in DOMAIN data'
                 /\ trades'[i].fill_price =
                        Some(data'[trades'[i].execution_timestamp].close)]_vars

\* A trade scheduled one interval ahead has just been given the current slice
\* and is still CREATED.
C14_Witness ==
    /\ lastCall.op = "register_observer"
    /\ lastCall.result = "ok"
    /\ delivered # <<>>
    /\ delivered[1].status = CREATED
    /\ LET t == trades[delivered[1].trade]
       IN  /\ t.status = CREATED
           /\ Val(last_market_data).isTraded
           /\ Val(last_market_data).timestamp < t.execution_timestamp

\* C15: a callback whose slice is not traded leaves every field of the trade
\* as it was, whatever the trade's status.
C15_GapChangesNothing ==
    [][\A k \in DOMAIN delivered' :
          ( /\ ~IsNone(last_market_data')
            /\ ~Val(last_market_data').isTraded )
          => trades'[delivered'[k].trade] = trades[delivered'[k].trade]]_vars

\* A FILLED trade has just been given a gap slice by Market.next().
C15_Witness ==
    /\ lastCall.op = "next"
    /\ delivered # <<>>
    /\ delivered[1].status = FILLED
    /\ ~Val(last_market_data).isTraded
    /\ trades[delivered[1].trade].status = FILLED

\* C16: the stop-loss price of a filled LONG trade is fill_price * (1 - stop_loss),
\* and a traded candle whose low is at or below it closes the trade at the
\* stop-loss price, at that candle's timestamp.
C16_StopLossClosesAtStopPrice ==
    [][/\ \A i \in DOMAIN trades' :
             LET t == trades'[i]
             IN  (t.status = FILLED /\ t.direction = LONG /\ has_stop_loss(t)) =>
                     Val(t.stop_loss_price) * 100
                         = Val(t.fill_price) * (100 - Val(t.stop_loss))
       /\ \A k \in DOMAIN delivered' :
             LET i == delivered'[k].trade
                 t == trades[i]
                 md == Val(last_market_data')
             IN  ( /\ delivered'[k].status = FILLED
                   /\ t.direction = LONG
                   /\ has_stop_loss(t)
                   /\ md.isTraded
                   /\ md.low <= Val(t.stop_loss_price) )
                 => /\ trades'[i].status = CLOSED
                    /\ trades'[i].close_price = t.stop_loss_price
                    /\ trades'[i].close_timestamp = Some(md.timestamp)]_vars

\* C17: while a trade is FILLED its paid commission is the entry commission
\* fill_price * quantity * commission and its realized P&L is minus that.
C17_EntryCommissionAtFill ==
    \A i \in DOMAIN trades :
        LET t == trades[i]
        IN  t.status = FILLED =>
              /\ t.paid_commission * 100 = Val(t.fill_price) * t.quantity * t.commission
              /\ t.realized_pnl = -t.paid_commission

\* A trade that pays commission is still FILLED some ticks after its fill.
C17_Witness ==
    \E i \in DOMAIN trades :
        /\ trades[i].status = FILLED
        /\ trades[i].commission > 0
        /\ trades[i].paid_commission > 0
        /\ trades[i].time_in_trade >= 2

\* C18: a trade has no trigger prices before its fill; from the fill on its
\* stop-loss price is fill * (1 - d * stop_loss) when a stop-loss is set and
\* its take-profit price is fill * (1 + d * risk_reward * stop_loss) when both
\* are set, unset otherwise; neither changes afterwards.
C18_TriggerPricesSetOnce ==
    [][\A i \in DOMAIN trades' :
          LET t == trades'[i]
          IN  /\ t.status \in {CREATED, REJECTED} =>
                    IsNone(t.stop_loss_price) /\ IsNone(t.take_profit_price)
              /\ t.status \in {FILLED, CLOSED} =>
                    /\ IsNone(t.stop_loss) => IsNone(t.stop_loss_price)
                    /\ ~IsNone(t.stop_loss) =>
                          /\ ~IsNone(t.stop_loss_price)
                          /\ Val(t.stop_loss_price) * 100 = Val(t.fill_price)
                                 * (100 - t.direction * Val(t.stop_loss))
                    /\ (IsNone(t.stop_loss) \/ IsNone(t.risk_reward)) =>
                          IsNone(t.take_profit_price)
                    /\ (~IsNone(t.stop_loss) /\ ~IsNone(t.risk_reward)) =>
                          /\ ~IsNone(t.take_profit_price)
                          /\ (Val(t.take_profit_price) - Val(t.fill_price)) * 10
                                 = (Val(t.fill_price) \div 100) * t.direction
                                       * Val(t.risk_reward) * Val(t.stop_loss)
              /\ (i \in DOMAIN trades /\ trades[i].status \in {FILLED, CLOSED}) =>
                    /\ t.stop_loss_price = trades[i].stop_loss_price
                    /\ t.take_profit_price = trades[i].take_profit_price]_vars

\* A SHORT trade with both trigger prices has been closed after some ticks.
C18_Witness ==
    \E i \in DOMAIN trades :
        /\ trades[i].status = CLOSED
        /\ trades[i].direction = SHORT
        /\ ~IsNone(trades[i].take_profit_price)
        /\ trades[i].time_in_trade >= 1

\* C11: Broker.openTrade on a prepared Market, with an id no booked trade has,
\* succeeds: it appends to Broker.trades, after the trades already there, a
\* trade with that id created and executed at the Market's timestamp, and
\* that trade is in the Market's subscriber list.
C11_OpenTradeBooksTrade ==
    [][( /\ lastCall'.op = "openTrade"
         /\ prepared
         /\ \A k \in DOMAIN broker_trades :
               trades[broker_trades[k]].id # Val(lastCall'.value) )
       => /\ lastCall'.result = "ok"
          /\ Len(broker_trades') = Len(broker_trades) + 1
          /\ SubSeq(broker_trades', 1, Len(broker_trades)) = broker_trades
          /\ LET i == broker_trades'[Len(broker_trades')]
             IN  /\ trades'[i].id = Val(lastCall'.value)
                 /\ trades'[i].creation_timestamp = Val(timestamp)
                 /\ trades'[i].execution_timestamp = Val(timestamp)
                 /\ i \in Range(observers')]_vars

\* C19: Broker.openTrade with the id of a booked trade ends in a duplicate-id
\* error and changes neither Broker.trades nor the Market's subscriber list,
\* and the ids of the booked trades are pairwise distinct.
C19_DuplicateIdRefused ==
    [][/\ ( /\ lastCall'.op = "openTrade"
            /\ \E k \in DOMAIN broker_trades :
                  trades[broker_trades[k]].id = Val(lastCall'.value) )
          => /\ lastCall'.result = "DuplicateIdError"
             /\ broker_trades' = broker_trades
             /\ observers' = observers
       /\ \A j, k \in DOMAIN broker_trades' :
             j # k => trades'[broker_trades'[j]].id # trades'[broker_trades'[k]].id]_vars

\* C20: Broker.info() changes nothing and reports the sum of realized_pnl
\* over the CLOSED booked trades, the sum of unrealized_pnl over the FILLED
\* ones, the numbers of CLOSED, FILLED, CLOSED-with-gain and CLOSED-with-loss
\* trades, and as win rate winning/closed (to the two decimals of the
\* percentage reported) when a trade is closed, None when none is.
C20_AggregatesAreFolds ==
    [][lastCall'.op = "info" =>
          LET r == Val(lastCall'.value)
              bt == broker_trades
              n == Len(bt)
              Is(k, st) == trades[bt[k]].status = st
              realized[k \in 0..n] ==
                  IF k = 0 THEN 0
                  ELSE realized[k - 1]
                       + (IF Is(k, CLOSED) THEN trades[bt[k]].realized_pnl ELSE 0)
              unrealized[k \in 0..n] ==
                  IF k = 0 THEN 0
                  ELSE unrealized[k - 1]
                       + (IF Is(k, FILLED) THEN trades[bt[k]].unrealized_pnl ELSE 0)
              closed == Cardinality({k \in 1..n : Is(k, CLOSED)})
              winning == Cardinality({k \in 1..n :
                             Is(k, CLOSED) /\ trades[bt[k]].realized_pnl > 0})
              losing == Cardinality({k \in 1..n :
                             Is(k, CLOSED) /\ trades[bt[k]].realized_pnl < 0})
          IN  /\ UNCHANGED <<prepared, data, timestamp, last_market_data,
                             observers, trades, broker_trades>>
              /\ r.RealizedProfit = realized[n]
              /\ r.UnrealizedProfit = unrealized[n]
              /\ r.ClosedTradesCount = closed
              /\ r.OpenTradesCount = Cardinality({k \in 1..n : Is(k, FILLED)})
              /\ r.WinningTradesCount = winning
              /\ r.LosingTradesCount = losing
              /\ (closed = 0) = IsNone(r.WinRate)
              /\ closed > 0 =>
                    2 * Abs(Val(r.WinRate) * closed - 10000 * winning) <= closed]_vars

\* Broker.info() has just reported on a book with three closed trades, one
\* winner and two losers: a win rate of one third, reported as 33.33%.
C20_Witness ==
    /\ lastCall.op = "info"
    /\ Val(lastCall.value).ClosedTradesCount = 3
    /\ Val(lastCall.value).WinningTradesCount = 1
    /\ Val(lastCall.value).LosingTradesCount = 2
    /\ Val(lastCall.value).RealizedProfit # 0
    /\ Val(lastCall.value).WinRate = Some(3333)


\* C21: Broker.reset empties the trade list from any book and leaves the Market's
\* timestamp alone; with the list empty every count and both profits are zero,
\* and info reports them with a Win Rate of None.
C21_ResetEmptiesBook ==
    [][ /\ lastCall'.op = "Broker.reset" =>
            /\ broker_trades' = <<>>
            /\ timestamp' = timestamp
            /\ last_market_data' = last_market_data
            /\ closed_trades_count(broker_trades', trades') = 0
            /\ open_trades_count(broker_trades', trades') = 0
            /\ winning_trades_count(broker_trades', trades') = 0
            /\ losing_trades_count(broker_trades', trades') = 0
            /\ get_realized_profit(broker_trades', trades') = 0
            /\ get_unrealized_profit(broker_trades', trades') = 0
        /\ (lastCall'.op = "info" /\ broker_trades = <<>>) =>
            /\ lastCall'.result = "ok"
            /\ LET info == Val(lastCall'.value)
               IN  /\ info.NumberOfTrades = 0
                   /\ info.RealizedProfit = 0
                   /\ info.UnrealizedProfit = 0
                   /\ info.ClosedTradesCount = 0
                   /\ info.OpenTradesCount = 0
                   /\ info.WinningTradesCount = 0
                   /\ info.LosingTradesCount = 0
                   /\ info.WinRate = None
                   /\ info.Timestamp = timestamp
      ]_vars

\* Broker.reset has just emptied the list while closed and open trades exist
C21_Witness ==
    /\ lastCall.op = "Broker.reset"
    /\ broker_trades = <<>>
    /\ ~IsNone(timestamp)
    /\ \E i \in DOMAIN trades : trades[i].status = CLOSED
    /\ \E i \in DOMAIN trades : trades[i].status = FILLED

\* C23: a Market.next() in which an observer's update callback unregisters
\* that observer still gives every other observer that was live when the
\* call began exactly one update.
C23_UnregisterInBroadcastSafe ==
    [][ ( /\ lastCall'.op = "next"
          /\ lastCall'.result # "NotPrepared"
          /\ lastCall'.result # "KeyError"
          /\ \E k \in DOMAIN observers :
                ~IsTrade(observers[k]) /\ leavers[-observers[k]] = 0 )
        => \A o \in Range(SelectLive(observers, trades)) :
              Cardinality({k \in DOMAIN delivered' : delivered'[k].trade = o}) = 1
      ]_vars

\* C30: before prepare(), each of reset, next, get_market_data,
\* register_observer and unregister_observer fails with the not-prepared
\* error and leaves the timestamp and the subscriber list as they were.
C30_NotPreparedRefused ==
    [][ ( /\ ~prepared
          /\ lastCall'.op \in {"reset", "next", "get_market_data",
                               "register_observer", "unregister_observer"} )
        => /\ lastCall'.result = "NotPrepared"
           /\ timestamp' = timestamp
           /\ observers' = observers
      ]_vars

\* C27: every registration a prepared Market accepts ends normally with
\* exactly one update to the new observer, and the slice pushed is the slice
\* of the Market's current timestamp.
C27_RegisterPushesCurrentSlice ==
    [][ (prepared /\ lastCall'.op = "register_observer")
        => /\ lastCall'.result = "ok"
           /\ Len(delivered') = 1
           /\ delivered'[1].trade = observers'[Len(observers')]
           /\ ~IsNone(last_market_data)
           /\ Val(last_market_data) = data[Val(timestamp)]
           /\ delivered'[1].timestamp = Val(timestamp)
      ]_vars

\* C26: Market.reset(rollback_periods=k) moves to since + k intervals and each
\* Market.next() within the range adds one interval, so reset(k) followed by
\* j next() stands at since + (k + j) intervals, and reset(0) followed by
\* k next() stands where reset(k) does.
C26_ResetThenNext ==
    [][ /\ ( /\ lastCall'.op = "reset"
             /\ ~IsNone(lastCall'.args)
             /\ ~Val(lastCall'.args).random )
           => timestamp' = Some(since + Val(lastCall'.args).rollback_periods * Timedelta)
        /\ ( /\ lastCall'.op = "next"
             /\ prepared
             /\ Val(timestamp) + Timedelta <= until )
           => /\ timestamp' = Some(Val(timestamp) + Timedelta)
              /\ lastCall'.result \in {"ok", "ValueError"}
        /\ prepared =>
             LET RECURSIVE Nexts(_, _)
                 Nexts(ts, j) == IF j = 0 THEN ts ELSE Nexts(ts + Timedelta, j - 1)
             IN  \A k \in 0..(GridLength - 1) :
                    /\ Nexts(reset_timestamp(0, FALSE, 0), k) = reset_timestamp(k, FALSE, k)
                    /\ \A j \in 0..(GridLength - 1 - k) :
                          Nexts(reset_timestamp(k, FALSE, k), j) = since + (k + j) * Timedelta
      ]_vars

\* Market.next() calls after the one Market.reset of the run have walked the
\* Market to the last timestamp of the dataset
C26_Witness ==
    /\ resets = 1
    /\ lastCall.op = "next"
    /\ lastCall.result = "ok"
    /\ timestamp = Some(until)

C24_OrderIndependent ==
    [][(lastCall'.op = "next" /\ lastCall'.result \in {"ok", "ValueError"}) =>
          LET pos(i) == CHOOSE k \in DOMAIN observers : observers[k] = i
          IN  /\ \A a, b \in DOMAIN delivered' :
                    a < b => pos(delivered'[a].trade) < pos(delivered'[b].trade)
              /\ \A p \in Permutations(DOMAIN observers) :
                    notify_observers([k \in DOMAIN observers |-> observers[p[k]]],
                                     trades, terminalSnap, leavers,
                                     Val(last_market_data')).run.trades = trades'
      ]_vars

\* A Market.next() has just updated two subscribers and closed exactly one
C24_Witness ==
    /\ lastCall.op = "next"
    /\ Len(delivered) = 2
    /\ delivered[1].status = FILLED
    /\ delivered[2].status = FILLED
    /\ \E i, j \in DOMAIN trades : trades[i].status = CLOSED /\ trades[j].status = FILLED

\* C25: one Clock.next() with the Market registered as an observer of the
\* Clock ends normally with the Market at the Clock's timestamp, the Market's
\* slice that of this timestamp, and exactly one update with this slice given
\* to every live subscribed trade.
C25_ClockNextCascades ==
    [][ ( /\ clockLog'.op = "next"
          /\ clock'.timestamp # clock.timestamp
          /\ prepared
          /\ MarketObserver \in Range(clock_observers)
          /\ clock'.timestamp \in DOMAIN data )
        => /\ clockLog'.result = "ok"
           /\ timestamp' = Some(clock'.timestamp)
           /\ last_market_data' = Some(data[clock'.timestamp])
           /\ \A i \in Range(observers) :
                 trades[i].status \in {CREATED, FILLED} =>
                    /\ Cardinality({k \in DOMAIN delivered' : delivered'[k].trade = i}) = 1
                    /\ \A k \in DOMAIN delivered' : delivered'[k].timestamp = clock'.timestamp
      ]_vars

\* C28: Clock.register_observer gives the new observer the Clock's current
\* timestamp in one update_timestamp call, and every Clock.next() and
\* Clock.reset() gives the new timestamp to each registered observer in
\* exactly one update_timestamp call.
C28_ClockNotifiesOnce ==
    [][ /\ (clockLog'.op = "register_observer" /\ clock_observers' # clock_observers) =>
            LET o == clock_observers'[Len(clock_observers')]
            IN  /\ clock_observers' = Append(clock_observers, o)
                /\ o \notin Range(clock_observers)
                /\ clock' = clock
                /\ clockLog'.result = "ok"
                /\ clockLog'.calls = <<Notice("update_timestamp", o, clock.timestamp)>>
                /\ listeners'[o] = Some(clock.timestamp)
        /\ clockLog'.op \in {"next", "reset"} =>
            /\ clockLog'.result = "ok"
            /\ clock_observers' = clock_observers
            /\ \A o \in Range(clock_observers) :
                  /\ Cardinality({k \in DOMAIN clockLog'.calls :
                                    /\ clockLog'.calls[k].kind = "update_timestamp"
                                    /\ clockLog'.calls[k].observer = o}) = 1
                  /\ listeners'[o] = Some(clock'.timestamp)
            /\ \A k \in DOMAIN clockLog'.calls :
                  /\ clockLog'.calls[k].observer \in Range(clock_observers)
                  /\ clockLog'.calls[k].timestamp = clock'.timestamp
      ]_vars

\* A Clock.next() has just given a timestamp after the start to two observers
C28_Witness ==
    /\ clockLog.op = "next"
    /\ Len(clock_observers) = 2
    /\ Len(clockLog.calls) = 2
    /\ clock.timestamp > clock.start_timestamp
    /\ \A o \in Range(clock_observers) : listeners[o] = Some(clock.timestamp)

\* C29: after Clock.reset the Clock stands on a point start + n * timeframe
\* with start <= timestamp <= end and has given that timestamp to each
\* observer; after Market.reset(k, random=True) the Market stands on a point
\* since + n * interval with since + k * interval <= timestamp <= until and
\* its slice is the slice of that timestamp.
C29_RandomResetOnGrid ==
    /\ clockLog.op = "reset" =>
          /\ clock.start_timestamp <= clock.timestamp
          /\ clock.timestamp <= clock.end_timestamp
          /\ (clock.timestamp - clock.start_timestamp) % clock.timeframe = 0
          /\ \A k \in DOMAIN clockLog.calls :
                clockLog.calls[k].timestamp = clock.timestamp
          /\ \A o \in Range(clock_observers) :
                /\ \E k \in DOMAIN clockLog.calls :
                      clockLog.calls[k] = Notice("update_timestamp", o, clock.timestamp)
                /\ listeners[o] = Some(clock.timestamp)
    /\ (lastCall.op = "reset" /\ ~IsNone(lastCall.args) /\ Val(lastCall.args).random) =>
          /\ Val(timestamp) \in DOMAIN data
          /\ (Val(timestamp) - since) % Timedelta = 0
          /\ since + Val(lastCall.args).rollback_periods * Timedelta <= Val(timestamp)
          /\ Val(timestamp) <= until
          /\ last_market_data = Some(data[Val(timestamp)])

\* A random Clock.reset has landed after the start with an observer on the
\* Clock, and a random Market.reset(1) has landed after since + 1 interval
C29_Witness ==
    /\ clockLog.op = "reset"
    /\ clock.timestamp > clock.start_timestamp
    /\ clock_observers # <<>>
    /\ lastCall.op = "reset"
    /\ ~IsNone(lastCall.args)
    /\ Val(lastCall.args).random
    /\ Val(lastCall.args).rollback_periods = 1
    /\ Val(timestamp) > since + Timedelta

\* C31: on a prepared Market, get_market_data(timestamp, lookback) returns
\* exactly the candles with timestamp - lookback * interval <= t <= timestamp
\* when that interval lies in [since, until], and otherwise fails, returning
\* nothing; either way it changes no state of the Market or of a trade.
C31_WindowIsClosedInterval ==
    [][(prepared /\ lastCall'.op = "get_market_data") =>
          LET a == Val(lastCall'.args)
              lo == a.timestamp - a.rollback_periods * Timedelta
          IN  /\ UNCHANGED <<prepared, data, timestamp, last_market_data, observers, trades>>
              /\ IF a.timestamp > until \/ lo < since
                 THEN /\ lastCall'.result # "ok"
                      /\ IsNone(lastCall'.value)
                 ELSE /\ lastCall'.result = "ok"
                      /\ DOMAIN Val(lastCall'.value) =
                            {t \in DOMAIN data : lo <= t /\ t <= a.timestamp}
                      /\ \A t \in DOMAIN Val(lastCall'.value) :
                            Val(lastCall'.value)[t] = data[t]
      ]_vars

\* get_market_data has just returned a window of two candles that ends at
\* the Market's timestamp
C31_Witness ==
    /\ lastCall.op = "get_market_data"
    /\ lastCall.result = "ok"
    /\ Val(lastCall.args).rollback_periods = 1
    /\ DOMAIN Val(lastCall.value) = {Val(timestamp) - Timedelta, Val(timestamp)}

\* C32: every trade constructed has quantity > 0, and no call ends in a
\* division of a P&L by a zero entry notional.
C32_NotionalNeverZero ==
    /\ \A i \in DOMAIN trades : trades[i].quantity > 0
    /\ \A i \in DOMAIN trades :
          trades[i].status \in {FILLED, CLOSED} => Notional(trades[i]) # 0
    /\ lastCall.result # "ZeroDivisionError"

\* C33: a FILLED trade given a traded slice closes exactly when the slice's
\* low/high (never its close) reaches a level that is set -- LONG: stop-loss
\* on low <= stop_loss_price, take-profit on high >= take_profit_price;
\* SHORT: stop-loss on high >= stop_loss_price, take-profit on low <=
\* take_profit_price -- at the level that was reached, and stays FILLED otherwise.
C33_ExitTriggers ==
    [][\A k \in DOMAIN delivered' :
          LET i == delivered'[k].trade
          IN  (/\ IsTrade(i)
               /\ i \in DOMAIN trades
               /\ delivered'[k].status = FILLED
               /\ ~IsNone(last_market_data')
               /\ Val(last_market_data').isTraded)
              => LET t == trades[i]
                     md == Val(last_market_data')
                     slHit == /\ ~IsNone(t.stop_loss_price)
                              /\ IF t.direction = LONG
                                 THEN md.low <= Val(t.stop_loss_price)
                                 ELSE md.high >= Val(t.stop_loss_price)
                     tpHit == /\ ~IsNone(t.take_profit_price)
                              /\ IF t.direction = LONG
                                 THEN md.high >= Val(t.take_profit_price)
                                 ELSE md.low <= Val(t.take_profit_price)
                 IN  /\ trades'[i].status = (IF slHit \/ tpHit THEN CLOSED ELSE FILLED)
                     /\ (slHit /\ ~tpHit) => trades'[i].close_price = t.stop_loss_price
                     /\ (tpHit /\ ~slHit) => trades'[i].close_price = t.take_profit_price
                     /\ (slHit \/ tpHit) => trades'[i].close_timestamp = Some(md.timestamp)
       ]_vars

\* A LONG trade closed at its stop-loss by a slice whose low reached the level
\* while its close stayed above it and its high stayed below the take-profit.
C33_Witness ==
    /\ lastCall.op = "next"
    /\ ~IsNone(last_market_data)
    /\ \E k \in DOMAIN delivered :
          LET i == delivered[k].trade
          IN  /\ IsTrade(i)
              /\ delivered[k].status = FILLED
              /\ trades[i].status = CLOSED
              /\ trades[i].direction = LONG
              /\ trades[i].close_price = trades[i].stop_loss_price
              /\ ~IsNone(trades[i].take_profit_price)
              /\ Val(last_market_data).low <= Val(trades[i].stop_loss_price)
              /\ Val(last_market_data).close > Val(trades[i].stop_loss_price)
              /\ Val(last_market_data).high < Val(trades[i].take_profit_price)

\* C34: a traded slice given to a FILLED trade adds exactly 1 to time_in_trade
\* and, when the trade stays FILLED, leaves unrealized_pnl = direction *
\* quantity * (close - fill_price) and unrealized_pnl_percentage = that over
\* quantity * fill_price; when the slice closes the trade the unrealized
\* fields are 0.  time_in_trade is 0 up to and on the fill and moves on no
\* other occasion, so it counts the traded slices received after the fill.
C34_MetricsPerSlice ==
    [][\A i \in DOMAIN trades :
          LET t == trades[i]
              u == trades'[i]
              got == /\ ~IsNone(last_market_data')
                     /\ Val(last_market_data').isTraded
                     /\ \E k \in DOMAIN delivered' : delivered'[k].trade = i
          IN  /\ t.status # FILLED => t.time_in_trade = u.time_in_trade
              /\ t.status = CREATED => t.time_in_trade = 0
              /\ (t.status = FILLED /\ ~got) =>
                    /\ u.time_in_trade = t.time_in_trade
                    /\ u.unrealized_pnl = t.unrealized_pnl
              /\ (t.status = FILLED /\ got) =>
                    LET close == Val(last_market_data').close
                        pnl == t.direction * t.quantity * (close - Val(t.fill_price))
                    IN  /\ u.time_in_trade = t.time_in_trade + 1
                        /\ u.status = FILLED =>
                              /\ u.unrealized_pnl = pnl
                              /\ u.unrealized_pnl_percentage =
                                    Frac(pnl, t.quantity * Val(t.fill_price))
                        /\ u.status = CLOSED =>
                              /\ u.unrealized_pnl = 0
                              /\ u.unrealized_pnl_percentage = Zero
                              /\ u.unrealized_pnl_percentage_discounted = Discounted(Zero, 0)
       ]_vars

\* A trade still FILLED one traded slice after its fill, carrying a nonzero
\* unrealized P&L.
C34_Witness ==
    /\ lastCall.op = "next"
    /\ \E k \in DOMAIN delivered :
          LET i == delivered[k].trade
          IN  /\ IsTrade(i)
              /\ delivered[k].status = FILLED
              /\ trades[i].status = FILLED
              /\ trades[i].time_in_trade = 1
              /\ trades[i].unrealized_pnl # 0

\* C37: a Market.next() that fails leaves the Market as it was: timestamp,
\* current slice, subscriber list and every trade's state are unchanged.
C37_FailedNextChangesNothing ==
    [][(lastCall'.op = "next" /\ lastCall'.result # "ok") =>
          /\ timestamp' = timestamp
          /\ last_market_data' = last_market_data
          /\ observers' = observers
          /\ trades' = trades]_vars

\* C38: a trade never closes on the tick that fills it: every CLOSED trade
\* has close_timestamp > execution_timestamp and time_in_trade >= 1.
C38_NeverClosesOnFillTick ==
    \A i \in DOMAIN trades :
        trades[i].status = CLOSED =>
            /\ Val(trades[i].close_timestamp) > trades[i].execution_timestamp
            /\ trades[i].time_in_trade >= 1

\* C35: every trade in Broker.trades whose status is CREATED or FILLED is in
\* the Market's subscriber list, whatever the interleaving of booking,
\* Market.next, Market.reset and Broker.reset.
C35_BookedLiveIsSubscribed ==
    \A k \in DOMAIN broker_trades :
        trades[broker_trades[k]].status \in {CREATED, FILLED} =>
            broker_trades[k] \in Range(observers)

\* C36: every Trade in the Market's subscriber list is in the Broker's current
\* trade list, so a trade the Broker has discarded gets no further broadcast.
C36_SubscribedIsBooked ==
    /\ \A k \in DOMAIN observers :
          IsTrade(observers[k]) => observers[k] \in Range(broker_trades)
    /\ lastCall.op = "next" =>
          \A k \in DOMAIN delivered :
              IsTrade(delivered[k].trade) => delivered[k].trade \in Range(broker_trades)

====
